---- MODULE Spec2Model ----
(***************************************************************************)
(* Model of the wgpu particle renderer: State (src/src/state.rs), the      *)
(* event loop of main (src/src/main.rs), Instance/InstanceRaw              *)
(* (src/src/vertex.rs) and Camera/CameraUniform (src/src/camera.rs).       *)
(*                                                                         *)
(* f32 values are modelled by integers.  Camera coordinates are kept in    *)
(* units of 1/ScrollDivisor so that `pos.y / 50.0` stays integral.  The    *)
(* aspect ratio width/height is kept as a reduced fraction.                *)
(*                                                                         *)
(* The content of a device buffer is its content in queue order: a         *)
(* write_buffer or a submitted command is visible to every command that    *)
(* is put on the queue after it.                                           *)
(***************************************************************************)
EXTENDS Integers, Naturals, Sequences, FiniteSets, TLC

(* ------------------------------- bounds -------------------------------- *)
\* number of particles of the model (1_500_000 in state.rs:247)
NumParticles == 2
\* number of render calls explored
MaxFrames == 2
\* number of window events (resize, scroll, key, close, other) explored
MaxEvents == 2
\* number of render calls explored when only frames are timed
MaxTimedFrames == 27

(* -------------------------- program constants -------------------------- *)
\* frame_time_samples: [f32; 25]
K == 25
\* with_inner_size(LogicalSize::new(1500, 900))
InitWidth == 1500
InitHeight == 900
\* self.camera.eye.z += pos.y as f32 / 50.0
ScrollDivisor == 50
\* eye: (0.0, 1.0, 5000.0), target: (0.0, 0.0, -100.0)
EyeZ == 5000
TargetZ == -100
\* let instances = (0..1_500_000)
ParticleCount == 1500000
\* variant: a grid with a digit dropped
DispatchGrid_Short == <<1000, 150, 1>>
\* raytracing_pass.dispatch_workgroups(10_000, 150, 1)
DispatchGrid == <<10000, 150, 1>>

\* particles the random generator may produce (a sample)
ParticleSamples ==
    {[position |-> <<0, 0, 0>>, speed |-> <<1, 0, 0>>, color |-> <<1, 1, 0, 1>>],
     [position |-> <<1, -2, 3>>, speed |-> <<0, -1, 2>>, color |-> <<0, 1, 1, 1>>]}
\* widths and heights of a Resized event
ResizeDims == {0, 1, 2}
\* elapsed times of a frame, in microseconds
FrameDeltas == {1, 2}
\* elapsed times of a frame when only frames are timed: a fast frame and a
\* frame of two thirds of a second
TimedDeltas == {2, 671089}
\* PixelDelta y values of a mouse wheel event
ScrollDeltas == {-1, 1}
\* @workgroup_size of the compute kernel: any size a kernel may declare
WorkgroupSizes == {1, 64, 256}
\* errors of Surface::get_current_texture
SurfaceErrors == {"Timeout", "Outdated", "Lost", "OutOfMemory"}

(* ------------------------------ vertex.rs ------------------------------ *)
Vec3Add(a, b) == <<a[1] + b[1], a[2] + b[2], a[3] + b[3]>>

\* Matrix4::from_translation: column-major, translation in the w column
from_translation(v) ==
    << <<1, 0, 0, 0>>, <<0, 1, 0, 0>>, <<0, 0, 1, 0>>, <<v[1], v[2], v[3], 1>> >>

\* Matrix4::from(Quaternion), q = <<x, y, z, w>>
from_quat(q) ==
    LET x == q[1]  y == q[2]  z == q[3]  w == q[4]
    IN  << <<1 - 2*(y*y + z*z), 2*(x*y + z*w), 2*(x*z - y*w), 0>>,
           <<2*(x*y - z*w), 1 - 2*(x*x + z*z), 2*(y*z + x*w), 0>>,
           <<2*(x*z + y*w), 2*(y*z - x*w), 1 - 2*(x*x + y*y), 0>>,
           <<0, 0, 0, 1>> >>

\* column-major 4x4 product a * b
MatMul(a, b) ==
    [j \in 1..4 |->
        [i \in 1..4 |->
            a[1][i]*b[j][1] + a[2][i]*b[j][2] + a[3][i]*b[j][3] + a[4][i]*b[j][4]]]

\* Instance::to_raw
to_raw(inst) ==
    [model |-> MatMul(from_translation(inst.position), from_quat(inst.rotation)),
     color |-> inst.color]

\* raw.model.w_axis.xyz()
w_axis_xyz(raw) == SubSeq(raw.model[4], 1, 3)

\* Quat::from_axis_angle(Vec3::Z, 0.0)
IdentityRotation == <<0, 0, 0, 1>>

(* ------------------------------ camera.rs ------------------------------ *)
RECURSIVE Gcd(_, _)
Gcd(a, b) == IF b = 0 THEN a ELSE Gcd(b, a % b)

\* width as f32 / height as f32, as a reduced fraction
Aspect(w, h) == <<w \div Gcd(w, h), h \div Gcd(w, h)>>

\* Camera::build_view_projection_matrix: a function of eye, target and
\* aspect (up, fovy, znear and zfar never change)
build_view_projection_matrix(cam) ==
    [eye |-> cam.eye, target |-> cam.target, aspect |-> cam.aspect]

(* --------------------------------- f32 --------------------------------- *)
\* f32 has a 24 bit significand: below 2^24 every integer is a value, from
\* 2^24 on the values are the multiples of the unit in the last place
RECURSIVE UlpFrom(_, _)
UlpFrom(n, u) == IF n \div u < 2^24 THEN u ELSE UlpFrom(n, 2 * u)

\* the integer nearest to p / q, ties to even
RoundHalfEven(p, q) ==
    LET d == p \div q
        r == p % q
    IN  IF 2 * r < q THEN d
        ELSE IF 2 * r > q THEN d + 1
        ELSE IF d % 2 = 0 THEN d ELSE d + 1

\* `as f32` of a non-negative integer
as_f32(n) == LET u == UlpFrom(n, 1) IN RoundHalfEven(n, u) * u

\* f32 + f32 of two non-negative integral values
f32_add(a, b) == as_f32(a + b)

\* the running sum from slot k on; samples are never negative
RECURSIVE SumFrom(_, _, _)
SumFrom(samples, k, acc) ==
    IF k = K THEN acc
    ELSE LET next == f32_add(acc, samples[k])
         IN  IF next >= 0 THEN SumFrom(samples, k + 1, next) ELSE 0

\* iter().sum::<f32>(): a left fold from 0.0 over the samples in index order
f32_sum(samples) == SumFrom(samples, 0, 0)

RECURSIVE ScaleFor(_, _, _)
ScaleFor(p, q, sh) ==
    IF (p * 2^sh) \div q >= 2^23 THEN sh ELSE ScaleFor(p, q, sh + 1)

\* f32 / f32 of two integral values with 0 <= p / q < 2^24: the quotient as
\* [m, e], the value m * 2^e with 2^23 <= m < 2^24 (m = 0 for zero)
f32_div(p, q) ==
    IF p = 0 THEN [m |-> 0, e |-> 0]
    ELSE LET sh == ScaleFor(p, q, 0)
             m0 == RoundHalfEven(p * 2^sh, q)
         IN  IF m0 = 2^24 THEN [m |-> 2^23, e |-> 1 - sh]
                          ELSE [m |-> m0, e |-> 0 - sh]

\* average_frame_time_us = samples.iter().sum::<f32>() / samples.len() as f32
average_frame_time_us(samples) == f32_div(f32_sum(samples), K)

(* ------------------------------- state --------------------------------- *)
VARIABLES
    instances,           \* Vec<Instance>
    instances_raw,       \* Vec<InstanceRaw>, the host mirror
    instances_cpu_data,  \* Vec<ParticleCpuData>
    instance_buffer,     \* device buffer, InstanceRaw per particle
    compute_pipeline,    \* TRUE = Some(ComputePipeline), FALSE = None
    size,                \* PhysicalSize <<width, height>>
    config,              \* SurfaceConfiguration <<width, height>>
    surface,             \* [configured: <<w, h>>, lost: BOOLEAN]
    camera,              \* [eye, target, aspect]
    camera_uniform,      \* CameraUniform.view_proj
    camera_buffer,       \* device buffer of the camera uniform
    frame_time_samples,  \* [0..K-1 -> f32]
    frame_time_index,    \* usize
    control_flow,        \* "Poll" or "Exit"
    pc,                  \* position inside State::render, "idle" between events
    err,                 \* result of the last get_current_texture
    handler,             \* the event being handled, or handled last
    calls,               \* device/queue/surface calls of that handler, in order
    pending_maps,        \* staging buffers with a map_async request outstanding
    map_result,          \* result handed to the last map_async callback
    crashed,             \* the process panicked
    frames,              \* number of render calls started
    events,              \* number of window events handled
    dispatch             \* workgroup grid of the last dispatch_workgroups call

vars == <<instances, instances_raw, instances_cpu_data, instance_buffer,
          compute_pipeline, size, config, surface, camera, camera_uniform,
          camera_buffer, frame_time_samples, frame_time_index, control_flow,
          pc, err, handler, calls, pending_maps, map_result, crashed, frames,
          events, dispatch>>

particleVars == <<instances, instances_raw, instances_cpu_data, instance_buffer>>
windowVars == <<size, config, surface>>
cameraVars == <<camera, camera_uniform, camera_buffer>>
timeVars == <<frame_time_samples, frame_time_index>>
mapVars == <<pending_maps, map_result, crashed>>

Particles == 1..NumParticles

\* State::new
Init ==
    /\ \E sample \in [Particles -> ParticleSamples] :
          /\ instances = [i \in Particles |->
                             [position |-> sample[i].position,
                              rotation |-> IdentityRotation,
                              color |-> sample[i].color]]
          /\ instances_cpu_data = [i \in Particles |-> [speed |-> sample[i].speed]]
    /\ instances_raw = [i \in Particles |-> to_raw(instances[i])]
    /\ instance_buffer = instances_raw
    /\ compute_pipeline = TRUE
    /\ size = <<InitWidth, InitHeight>>
    /\ config = size
    /\ surface = [configured |-> config, lost |-> FALSE]
    /\ camera = [eye |-> <<0, ScrollDivisor, EyeZ * ScrollDivisor>>,
                 target |-> <<0, 0, TargetZ * ScrollDivisor>>,
                 aspect |-> Aspect(config[1], config[2])]
    /\ camera_uniform = build_view_projection_matrix(camera)
    /\ camera_buffer = camera_uniform
    /\ frame_time_samples = [k \in 0..(K - 1) |-> 0]
    /\ frame_time_index = 0
    /\ control_flow = "Poll"
    /\ pc = "idle"
    /\ err = "none"
    /\ handler = "none"
    /\ calls = <<>>
    /\ pending_maps = <<>>
    /\ map_result = "none"
    /\ crashed = FALSE
    /\ frames = 0
    /\ events = 0
    /\ dispatch = <<0, 0, 0>>


(* --------------------------- pure helpers ------------------------------ *)
\* Iterator::zip stops at the shorter of the two
ZipLen(a, b) == IF Len(a) < Len(b) THEN Len(a) ELSE Len(b)

\* compute_kernel.wgsl, entry point main: every particle's translation
\* column advances by its drift (cpu_data_buffer holds instances_cpu_data)
compute_kernel(buffer, data) ==
    [i \in 1..Len(buffer) |->
        IF i <= Len(data)
        THEN [buffer[i] EXCEPT !.model[4] =
                 <<@[1] + data[i].speed[1], @[2] + data[i].speed[2],
                   @[3] + data[i].speed[3], @[4]>>]
        ELSE buffer[i]]

\* move_particles, else branch: instance.position += cpu_data.speed, in place
advance_positions(insts, data) ==
    [i \in 1..Len(insts) |->
        IF i <= ZipLen(insts, data)
        THEN [insts[i] EXCEPT !.position = Vec3Add(@, data[i].speed)]
        ELSE insts[i]]

\* variant: the collected vector misses the last particle
collect_into_vec_Short(insts, data) ==
    [i \in 1..(ZipLen(insts, data) - 1) |-> to_raw(advance_positions(insts, data)[i])]

\* variant: the raw instance is taken before the position is advanced
collect_into_vec_Stale(insts, data) ==
    [i \in 1..ZipLen(insts, data) |-> to_raw(insts[i])]

\* move_particles, else branch: .map(.. instance.to_raw()).collect_into_vec(..)
collect_into_vec(insts, data) ==
    [i \in 1..ZipLen(insts, data) |-> to_raw(advance_positions(insts, data)[i])]

\* input, R key: for (instance, raw) in instances.iter_mut().zip(&instances_raw)
positions_from_raw(insts, raws) ==
    [i \in 1..Len(insts) |->
        IF i <= ZipLen(insts, raws)
        THEN [insts[i] EXCEPT !.position = w_axis_xyz(raws[i])]
        ELSE insts[i]]

\* the closure given to map_async: x.unwrap() panics on an error, the
\* mapped bytes are copied into a local vector and dropped
map_callback_panics(x) == x = "err"

\* Queue::submit maintains the device and runs the callback of a map request
\* that has resolved: "none" when no request resolves during this submit
PollOutcomes == IF pending_maps = <<>> THEN {"none"} ELSE {"none", "ok", "err"}

\* effect of Queue::submit on the outstanding map requests
Poll(d) ==
    /\ pending_maps' = IF d = "none" THEN pending_maps ELSE Tail(pending_maps)
    /\ map_result' = IF d = "none" THEN map_result ELSE d
    /\ crashed' = map_callback_panics(d)

\* variant: events are delivered while a render call is in progress
Dispatching_Reentrant == control_flow = "Poll" /\ ~crashed

\* event_loop.run: the closure is called for one event at a time, and not
\* again once control flow is Exit or the process has panicked
Dispatching == pc = "idle" /\ control_flow = "Poll" /\ ~crashed

\* a window event is delivered to the closure
WindowEvent(name) ==
    /\ Dispatching
    /\ events < MaxEvents
    /\ events' = events + 1
    /\ handler' = name

(* ------------------------- State::move_particles ----------------------- *)
\* if let Some(compute_pipeline): dispatch_workgroups and queue.submit
GpuAdvance ==
    /\ \E d \in PollOutcomes : Poll(d)
    /\ instance_buffer' = compute_kernel(instance_buffer, instances_cpu_data)
    /\ dispatch' = DispatchGrid
    /\ calls' = <<"submit_compute">>
    /\ UNCHANGED <<instances, instances_raw, instances_cpu_data>>

\* else: parallel map over the particles, then queue.write_buffer
CpuAdvance ==
    /\ instances' = advance_positions(instances, instances_cpu_data)
    /\ instances_raw' = collect_into_vec(instances, instances_cpu_data)
    /\ instance_buffer' = instances_raw'
    /\ calls' = <<"write_instance_buffer">>
    /\ UNCHANGED <<instances_cpu_data, mapVars, dispatch>>

\* variant: the upload is not in an else branch, both backends write
MoveParticles_BothWriters ==
    /\ pc = "idle" /\ control_flow = "Poll" /\ ~crashed
    /\ frames < MaxFrames
    /\ frames' = frames + 1
    /\ handler' = "RedrawRequested"
    /\ err' = "none"
    /\ pc' = "moved"
    /\ IF compute_pipeline
       THEN /\ \E d \in PollOutcomes : Poll(d)
            /\ instance_buffer' = instances_raw
            /\ dispatch' = DispatchGrid
            /\ calls' = <<"submit_compute", "write_instance_buffer">>
            /\ UNCHANGED <<instances, instances_raw, instances_cpu_data>>
       ELSE CpuAdvance
    /\ UNCHANGED <<compute_pipeline, windowVars, cameraVars, timeVars, control_flow,
                   events>>

\* RedrawRequested: State::render up to the return of move_particles;
\* limit bounds the number of render calls
StartFrame(limit) ==
    /\ Dispatching
    /\ frames < limit
    /\ frames' = frames + 1
    /\ handler' = "RedrawRequested"
    /\ err' = "none"
    /\ pc' = "moved"
    /\ IF compute_pipeline THEN GpuAdvance ELSE CpuAdvance
    /\ UNCHANGED <<compute_pipeline, windowVars, cameraVars, timeVars, control_flow,
                   events>>

MoveParticles == StartFrame(MaxFrames)

(* ----------------------------- State::render --------------------------- *)
\* variant: the error of get_current_texture is not propagated
GetCurrentTexture_IgnoresError ==
    /\ pc = "moved" /\ ~crashed
    /\ \E r \in {"none"} \cup SurfaceErrors :
          /\ err' = r
          /\ pc' = "acquired"
          /\ surface' = [surface EXCEPT !.lost = @ \/ r = "Lost"]
    /\ calls' = Append(calls, "get_current_texture")
    /\ UNCHANGED <<particleVars, compute_pipeline, size, config, cameraVars, timeVars,
                   control_flow, handler, mapVars, frames, events, dispatch>>

\* self.surface.get_current_texture()?
GetCurrentTexture ==
    /\ pc = "moved" /\ ~crashed
    /\ \E r \in {"none"} \cup SurfaceErrors :
          /\ err' = r
          /\ pc' = IF r = "none" THEN "acquired" ELSE "error"
          /\ surface' = [surface EXCEPT !.lost = @ \/ r = "Lost"]
    /\ calls' = Append(calls, "get_current_texture")
    /\ UNCHANGED <<particleVars, compute_pipeline, size, config, cameraVars, timeVars,
                   control_flow, handler, mapVars, frames, events, dispatch>>

\* begin_render_pass .. draw_indexed(0..index_count, 0, 0..instances.len())
RecordDraw ==
    /\ pc = "acquired" /\ ~crashed
    /\ pc' = "recorded"
    /\ calls' = Append(calls, "draw_indexed")
    /\ UNCHANGED <<particleVars, compute_pipeline, windowVars, cameraVars, timeVars,
                   control_flow, err, handler, mapVars, frames, events, dispatch>>

\* camera_uniform.update_view_proj(&camera); queue.write_buffer(&camera_buffer, ..)
UpdateCamera ==
    /\ pc = "recorded" /\ ~crashed
    /\ pc' = "camera"
    /\ camera_uniform' = build_view_projection_matrix(camera)
    /\ camera_buffer' = camera_uniform'
    /\ calls' = calls \o <<"update_view_proj", "write_camera_buffer">>
    /\ UNCHANGED <<particleVars, compute_pipeline, windowVars, camera, timeVars,
                   control_flow, err, handler, mapVars, frames, events, dispatch>>

\* variant: the render pass is submitted before the camera is refreshed
SubmitRender_BeforeCamera ==
    /\ pc = "recorded" /\ ~crashed
    /\ pc' = "submitted"
    /\ \E d \in PollOutcomes : Poll(d)
    /\ calls' = Append(calls, "submit_render")
    /\ UNCHANGED <<particleVars, compute_pipeline, windowVars, cameraVars, timeVars,
                   control_flow, err, handler, frames, events, dispatch>>

\* encoders.push(render_encoder.finish()); self.queue.submit(encoders)
SubmitRender ==
    /\ pc = "camera" /\ ~crashed
    /\ pc' = "submitted"
    /\ \E d \in PollOutcomes : Poll(d)
    /\ calls' = Append(calls, "submit_render")
    /\ UNCHANGED <<particleVars, compute_pipeline, windowVars, cameraVars, timeVars,
                   control_flow, err, handler, frames, events, dispatch>>

\* variant: the frame is presented before the render pass is submitted
Present_BeforeSubmit ==
    /\ pc = "camera" /\ ~crashed
    /\ pc' = "presented"
    /\ calls' = Append(calls, "present")
    /\ UNCHANGED <<particleVars, compute_pipeline, windowVars, cameraVars, timeVars,
                   control_flow, err, handler, mapVars, frames, events, dispatch>>

\* output.present()
Present ==
    /\ pc = "submitted" /\ ~crashed
    /\ pc' = "presented"
    /\ calls' = Append(calls, "present")
    /\ UNCHANGED <<particleVars, compute_pipeline, windowVars, cameraVars, timeVars,
                   control_flow, err, handler, mapVars, frames, events, dispatch>>

\* variant: the index is not taken modulo the length
RecordFrameTimeWith_NoWrap(delta) ==
    /\ pc = "presented" /\ ~crashed
    /\ pc' = "idle"
    /\ frame_time_samples' =
           [frame_time_samples EXCEPT ![frame_time_index] = as_f32(delta)]
    /\ frame_time_index' = frame_time_index + 1
    /\ calls' = Append(calls, "frame_time")
    /\ UNCHANGED <<particleVars, compute_pipeline, windowVars, cameraVars,
                   control_flow, err, handler, mapVars, frames, events, dispatch>>

\* frame_time_samples[frame_time_index] = delta.as_micros() as f32;
\* frame_time_index = (frame_time_index + 1) % len; Ok(())
RecordFrameTimeWith(delta) ==
    /\ pc = "presented" /\ ~crashed
    /\ pc' = "idle"
    /\ frame_time_samples' =
           [frame_time_samples EXCEPT ![frame_time_index] = as_f32(delta)]
    /\ frame_time_index' = (frame_time_index + 1) % K
    /\ calls' = Append(calls, "frame_time")
    /\ UNCHANGED <<particleVars, compute_pipeline, windowVars, cameraVars,
                   control_flow, err, handler, mapVars, frames, events, dispatch>>

RecordFrameTime == \E delta \in FrameDeltas : RecordFrameTimeWith(delta)

(* ----------------------------- State::resize --------------------------- *)
\* variant: only the width is tested
resize_WidthOnly(new_size, log) ==
    IF new_size[1] > 0
    THEN /\ size' = new_size
         /\ config' = new_size
         /\ surface' = [configured |-> new_size, lost |-> FALSE]
         /\ camera' = [camera EXCEPT !.aspect = Aspect(new_size[1], new_size[2])]
         /\ calls' = Append(log, "configure")
    ELSE /\ calls' = log
         /\ UNCHANGED <<size, config, surface, camera>>

\* log: the calls made so far by the handler that calls resize
resize(new_size, log) ==
    IF new_size[1] > 0 /\ new_size[2] > 0
    THEN /\ size' = new_size
         /\ config' = new_size
         /\ surface' = [configured |-> new_size, lost |-> FALSE]
         /\ camera' = [camera EXCEPT !.aspect = Aspect(new_size[1], new_size[2])]
         /\ calls' = Append(log, "configure")
    ELSE /\ calls' = log
         /\ UNCHANGED <<size, config, surface, camera>>

(* -------------------------------- main --------------------------------- *)
\* variant: a lost surface is only logged, like the other errors
HandleSurfaceError_NoReconfigure ==
    /\ pc = "error" /\ ~crashed
    /\ pc' = "idle"
    /\ CASE err = "OutOfMemory" ->
                /\ control_flow' = "Exit"
                /\ UNCHANGED <<windowVars, camera, calls>>
         [] OTHER -> UNCHANGED <<windowVars, camera, calls, control_flow>>
    /\ UNCHANGED <<particleVars, compute_pipeline, camera_uniform, camera_buffer,
                   timeVars, err, handler, mapVars, frames, events, dispatch>>

\* variant: out-of-memory is only logged, like the other errors
HandleSurfaceError_OomContinues ==
    /\ pc = "error" /\ ~crashed
    /\ pc' = "idle"
    /\ CASE err = "Lost" -> resize(size, calls) /\ UNCHANGED control_flow
         [] OTHER -> UNCHANGED <<windowVars, camera, calls, control_flow>>
    /\ UNCHANGED <<particleVars, compute_pipeline, camera_uniform, camera_buffer,
                   timeVars, err, handler, mapVars, frames, events, dispatch>>

\* if let Err(e) = state.render() { match e { .. } }
HandleSurfaceError ==
    /\ pc = "error" /\ ~crashed
    /\ pc' = "idle"
    /\ CASE err = "Lost" -> resize(size, calls) /\ UNCHANGED control_flow
         [] err = "OutOfMemory" ->
                /\ control_flow' = "Exit"
                /\ UNCHANGED <<windowVars, camera, calls>>
         [] OTHER -> UNCHANGED <<windowVars, camera, calls, control_flow>>
    /\ UNCHANGED <<particleVars, compute_pipeline, camera_uniform, camera_buffer,
                   timeVars, err, handler, mapVars, frames, events, dispatch>>

\* WindowEvent::Resized(size) and ScaleFactorChanged { new_inner_size }
ResizedTo(w, h) ==
    /\ WindowEvent("Resized")
    /\ resize(<<w, h>>, <<>>)
    /\ UNCHANGED <<particleVars, compute_pipeline, camera_uniform, camera_buffer,
                   timeVars, control_flow, pc, err, mapVars, frames, dispatch>>

Resized == \E w \in ResizeDims, h \in ResizeDims : ResizedTo(w, h)

\* WindowEvent::CloseRequested
CloseRequested ==
    /\ WindowEvent("CloseRequested")
    /\ control_flow' = "Exit"
    /\ calls' = <<>>
    /\ UNCHANGED <<particleVars, compute_pipeline, windowVars, cameraVars, timeVars,
                   pc, err, mapVars, frames, dispatch>>

(* ----------------------------- State::input ---------------------------- *)
\* MouseWheel with a PixelDelta: the event is consumed (input returns true)
MouseWheel ==
    /\ WindowEvent("MouseWheel")
    /\ \E dy \in ScrollDeltas :
          LET z == camera.eye[3] + dy
              eye == <<camera.eye[1], camera.eye[2], z>>
          IN  camera' = [camera EXCEPT !.eye = eye,
                             !.target = Vec3Add(eye, <<0, 0, -ScrollDivisor>>)]
    /\ calls' = <<>>
    /\ UNCHANGED <<particleVars, compute_pipeline, windowVars, camera_uniform,
                   camera_buffer, timeVars, control_flow, pc, err, mapVars, frames, dispatch>>

\* KeyboardInput with virtual_keycode == Some(R)
KeyboardInputR ==
    /\ WindowEvent("KeyboardInput")
    /\ \E d \in PollOutcomes :
          IF map_callback_panics(d)
          THEN \* the panic unwinds out of queue.submit
               /\ Poll(d)
               /\ calls' = <<"copy_buffer_to_buffer", "submit_copy">>
               /\ UNCHANGED <<instances, compute_pipeline>>
          ELSE /\ pending_maps' =
                     Append(IF d = "none" THEN pending_maps ELSE Tail(pending_maps),
                            instance_buffer)
               /\ map_result' = IF d = "none" THEN map_result ELSE d
               /\ crashed' = FALSE
               /\ calls' = <<"copy_buffer_to_buffer", "submit_copy", "map_async">>
               /\ instances' = positions_from_raw(instances, instances_raw)
               /\ compute_pipeline' = FALSE
    /\ UNCHANGED <<instances_raw, instances_cpu_data, instance_buffer, windowVars,
                   cameraVars, timeVars, control_flow, pc, err, frames, dispatch>>

\* any other window event: a MouseWheel with a LineDelta, another key, ..
OtherWindowEvent ==
    /\ WindowEvent("Other")
    /\ calls' = <<>>
    /\ UNCHANGED <<particleVars, compute_pipeline, windowVars, cameraVars, timeVars,
                   control_flow, pc, err, mapVars, frames, dispatch>>

Next ==
    \/ MoveParticles
    \/ GetCurrentTexture
    \/ RecordDraw
    \/ UpdateCamera
    \/ SubmitRender
    \/ Present
    \/ RecordFrameTime
    \/ HandleSurfaceError
    \/ Resized
    \/ CloseRequested
    \/ MouseWheel
    \/ KeyboardInputR
    \/ OtherWindowEvent

Spec == Init /\ [][Next]_vars

(* ------------------------- frames only, timed -------------------------- *)
\* RedrawRequested, for a longer run of frames
TimedMoveParticles == StartFrame(MaxTimedFrames)

\* the frame time changes only when every sample written so far is equal
SteadyInput(delta) ==
    LET prev == frame_time_samples[(frame_time_index + K - 1) % K]
    IN  \/ as_f32(delta) = prev
        \/ \A k \in 0..(K - 1) : frame_time_samples[k] \in {0, prev}

TimedRecordFrameTime ==
    \E delta \in TimedDeltas : SteadyInput(delta) /\ RecordFrameTimeWith(delta)

\* the event loop when no window event arrives: only RedrawRequested
TimedNext ==
    \/ TimedMoveParticles
    \/ GetCurrentTexture
    \/ RecordDraw
    \/ UpdateCamera
    \/ SubmitRender
    \/ Present
    \/ TimedRecordFrameTime
    \/ HandleSurfaceError

SpecTimed == Init /\ [][TimedNext]_vars


(* ------------------------------ properties ----------------------------- *)
\* position of the first occurrence of call c in a log, 0 when absent
Pos(log, c) ==
    IF \E i \in 1..Len(log) : log[i] = c
    THEN CHOOSE i \in 1..Len(log) : log[i] = c /\ \A j \in 1..(i - 1) : log[j] # c
    ELSE 0

IsInstanceWrite(c) == c \in {"submit_compute", "write_instance_buffer"}

\* C1: when the R key handler has switched from the GPU backend to the CPU
\* backend, every Particle.position equals the translation column of the
\* instance data read back from the device (the staged copy of the instance
\* buffer as the GPU backend last wrote it).
C1_SwitchReconcilesPositions ==
    [][(compute_pipeline /\ KeyboardInputR) =>
          \A i \in 1..Len(instances') :
              instances'[i].position =
                  w_axis_xyz(pending_maps'[Len(pending_maps')][i])]_vars

\* C2: while the map request of the staging buffer is outstanding the mode
\* is not CPU (the compute pipeline is still present), so no CPU advance or
\* upload can run before the map has completed.
C2_NoCpuAuthorityWhileMapPending ==
    pending_maps # <<>> => compute_pipeline

\* C3: in every frame exactly one backend writes the instance buffer: the
\* compute dispatch when the compute pipeline is present, the CPU upload
\* when it is absent.
C3_ExactlyOneWriterPerFrame ==
    handler = "RedrawRequested" =>
        LET writes == SelectSeq(calls, IsInstanceWrite)
        IN  /\ Len(writes) = 1
            /\ writes[1] = (IF compute_pipeline THEN "submit_compute"
                                                ELSE "write_instance_buffer")

C3_Witness ==
    /\ handler = "RedrawRequested" /\ pc = "idle" /\ frames = 2
    /\ ~compute_pipeline
    /\ Pos(calls, "write_instance_buffer") = 1
    /\ Pos(calls, "frame_time") > 0

\* C4: in every frame the write to the instance buffer is placed on the
\* queue before the render pass submission, and the render pass submission
\* before present.
C4_WriteThenRenderThenPresent ==
    handler = "RedrawRequested" =>
        /\ Len(calls) > 0 /\ IsInstanceWrite(calls[1])
        /\ Pos(calls, "submit_render") > 0 =>
              /\ Pos(calls, "draw_indexed") > 0
              /\ Pos(calls, "draw_indexed") < Pos(calls, "submit_render")
        /\ Pos(calls, "present") > 0 =>
              /\ Pos(calls, "submit_render") > 0
              /\ Pos(calls, "submit_render") < Pos(calls, "present")
        /\ Pos(calls, "frame_time") > 0 => Pos(calls, "present") > 0

C4_Witness ==
    /\ handler = "RedrawRequested" /\ pc = "presented"
    /\ compute_pipeline
    /\ calls[1] = "submit_compute"
    /\ Pos(calls, "present") = Len(calls)

\* C5 (as claimed): handling the input event that raises a backend switch
\* does not itself change the mode.
C5_SwitchNotAppliedByInput ==
    [][KeyboardInputR => compute_pipeline' = compute_pipeline]_vars

\* C5 (amended): the mode changes only in the R key handler, which runs
\* between render calls; from a frame's advance to its present and return
\* the mode does not change.
C5_ModeChangesOnlyBetweenFrames ==
    [][/\ compute_pipeline' # compute_pipeline =>
              KeyboardInputR /\ pc = "idle" /\ pc' = "idle"
       /\ (pc # "idle" \/ pc' # "idle") => compute_pipeline' = compute_pipeline]_vars

C5_Witness ==
    /\ ~compute_pipeline /\ pc = "presented" /\ frames = 2
    /\ handler = "RedrawRequested"

\* C6: when the map request of the switch is rejected the process does not
\* crash and the simulation is still in GPU mode.
C6_MapFailureKeepsGpuMode ==
    map_result = "err" => ~crashed /\ compute_pipeline

\* C7: a frame that fails with surface-lost records no draw, submits and
\* presents nothing, and the surface is reconfigured with the stored size
\* before the handler returns, so no frame starts on a lost surface; the
\* event loop keeps dispatching.
C7_LostSurfaceReconfigured ==
    /\ pc \in {"idle", "moved"} => ~surface.lost
    /\ (handler = "RedrawRequested" /\ pc = "idle" /\ err = "Lost") =>
          /\ Pos(calls, "draw_indexed") = 0
          /\ Pos(calls, "submit_render") = 0
          /\ Pos(calls, "present") = 0
          /\ calls[Len(calls)] = "configure"
          /\ surface.configured = size
          /\ Dispatching

C7_Witness ==
    /\ handler = "RedrawRequested" /\ pc = "idle" /\ err = "Lost"
    /\ frames = 1

\* C8: handling an out-of-memory frame error sets the control flow to Exit,
\* handling any other frame error leaves it at Poll, and once the control
\* flow is Exit no frame is started and nothing else runs.
C8_OomExitsOthersContinue ==
    [][/\ HandleSurfaceError =>
              control_flow' = (IF err = "OutOfMemory" THEN "Exit" ELSE "Poll")
       /\ control_flow = "Exit" => UNCHANGED vars]_vars

C8_Witness ==
    /\ err = "OutOfMemory" /\ control_flow = "Exit" /\ pc = "idle"
    /\ handler = "RedrawRequested"

\* C9: the three per-particle containers all have length N.
C9_ContainerLengths ==
    /\ Len(instances) = NumParticles
    /\ Len(instances_cpu_data) = NumParticles
    /\ Len(instances_raw) = NumParticles

C9_Witness ==
    /\ ~compute_pipeline /\ frames = 2 /\ pc = "idle"
    /\ instance_buffer = instances_raw
    /\ handler = "MouseWheel"

\* C10: a resize whose width or height is 0 leaves the stored size, the
\* surface configuration, the configured surface and the camera (its
\* aspect) as they were and makes no configure call.
C10_ZeroResizeIsNoOp ==
    [][\A w \in ResizeDims, h \in ResizeDims :
          ((w = 0 \/ h = 0) /\ ResizedTo(w, h)) =>
              /\ UNCHANGED <<size, config, surface, camera>>
              /\ calls' = <<>>]_vars

C10_Witness ==
    /\ handler = "Resized" /\ calls = <<>>
    /\ size = <<InitWidth, InitHeight>>


\* C11: the grid of every compute dispatch covers all particles created at
\* construction: workgroups.x * workgroups.y * workgroup_size >= N, for
\* every workgroup size the kernel may declare.
C11_DispatchCoversParticles ==
    dispatch # <<0, 0, 0>> =>
        \A ws \in WorkgroupSizes : dispatch[1] * dispatch[2] * ws >= ParticleCount

C11_Witness ==
    /\ dispatch # <<0, 0, 0>>
    /\ handler = "RedrawRequested" /\ pc = "moved"
    /\ calls = <<"submit_compute">>


\* every slot of the frame time buffer holds the same sample
AllSamplesEqual == \A k \in 0..(K - 1) : frame_time_samples[k] = frame_time_samples[0]

\* C12 (as claimed): the write index stays in 0..K-1 and, whenever the K
\* samples are the same value v, the rolling average is exactly v.
C12_AverageOfEqualSamples ==
    /\ frame_time_index \in 0..(K - 1)
    /\ AllSamplesEqual =>
          average_frame_time_us(frame_time_samples) = f32_div(frame_time_samples[0], 1)

\* C12 (amended): the write index stays in 0..K-1; a frame that returns Ok
\* overwrites the slot at the index and advances the index by one modulo K,
\* and no other step touches the buffer or the index; whenever the K samples
\* are the same value v with K * v <= 2^24, the rolling average is exactly v.
C12_CircularBufferAndSmallAverage ==
    /\ [](/\ frame_time_index \in 0..(K - 1)
          /\ (AllSamplesEqual /\ K * frame_time_samples[0] <= 2^24) =>
                average_frame_time_us(frame_time_samples)
                    = f32_div(frame_time_samples[0], 1))
    /\ [][IF pc = "presented" /\ pc' = "idle"
          THEN /\ frame_time_index' = (frame_time_index + 1) % K
               /\ \A k \in 0..(K - 1) :
                     k # frame_time_index =>
                         frame_time_samples'[k] = frame_time_samples[k]
          ELSE UNCHANGED timeVars]_vars

C12_Witness ==
    /\ AllSamplesEqual
    /\ frame_time_samples[0] = 2
    /\ frame_time_index = 0
    /\ pc = "idle"


\* s is an initial segment of t
IsPrefix(s, t) == Len(s) <= Len(t) /\ SubSeq(t, 1, Len(s)) = s

\* the calls of a render call that returns Ok, after the backend write
FrameOrder ==
    <<"get_current_texture", "draw_indexed", "update_view_proj",
      "write_camera_buffer", "submit_render", "present", "frame_time">>

\* C13 (as claimed): within a frame the camera uniform is refreshed and
\* uploaded before the draw is recorded.
C13_CameraBeforeDrawRecording ==
    (handler = "RedrawRequested" /\ Pos(calls, "draw_indexed") > 0) =>
        /\ Pos(calls, "update_view_proj") > 0
        /\ Pos(calls, "update_view_proj") < Pos(calls, "write_camera_buffer")
        /\ Pos(calls, "write_camera_buffer") < Pos(calls, "draw_indexed")

\* C13 (amended): within a frame the steps occur in the order backend
\* advance, surface acquisition, draw recording, camera refresh, camera
\* uniform upload, submit, present, frame-time recording; the camera uniform
\* is refreshed and uploaded after the draw is recorded and before the
\* render pass is submitted, so the submitted draw uses the current camera.
C13_FrameStepOrder ==
    (handler = "RedrawRequested" /\ err = "none") =>
        /\ Len(calls) > 0 /\ IsInstanceWrite(calls[1])
        /\ IsPrefix(Tail(calls), FrameOrder)
        /\ pc = "idle" => Tail(calls) = FrameOrder
        /\ pc \in {"camera", "submitted", "presented"} =>
              /\ camera_uniform = build_view_projection_matrix(camera)
              /\ camera_buffer = camera_uniform

C13_Witness ==
    /\ handler = "RedrawRequested" /\ err = "none" /\ pc = "camera"
    /\ events = 1
    /\ camera.eye[3] # EyeZ * ScrollDivisor
    /\ camera_buffer.eye = camera.eye

\* C14: every host position equals the translation column of the host
\* mirror at the same index; a GPU-mode advance changes neither, and the R
\* key handler changes no position.
C14_PositionsMatchHostMirror ==
    /\ [](\A i \in 1..Len(instances) :
             instances[i].position = w_axis_xyz(instances_raw[i]))
    /\ [][/\ (compute_pipeline /\ pc = "idle" /\ pc' = "moved") =>
                 UNCHANGED <<instances, instances_raw>>
          /\ KeyboardInputR => instances' = instances]_vars

C14_Witness ==
    /\ handler = "KeyboardInput" /\ ~compute_pipeline
    /\ pending_maps # <<>>
    /\ instance_buffer # instances_raw
    /\ frames = 1

\* C15: a render call whose surface acquisition fails has made exactly one
\* backend write, before the acquisition, and no draw, camera update, render
\* submission, present or frame-time record; none of its steps changes the
\* camera uniform, the camera buffer, the frame-time samples or the index.
C15_FailedAcquisitionStillAdvances ==
    /\ []((handler = "RedrawRequested" /\ err # "none") =>
             /\ Len(SelectSeq(calls, IsInstanceWrite)) = 1
             /\ IsInstanceWrite(calls[1])
             /\ calls[2] = "get_current_texture"
             /\ \A c \in {"draw_indexed", "update_view_proj", "write_camera_buffer",
                          "submit_render", "present", "frame_time"} :
                    Pos(calls, c) = 0)
    /\ [][(pc' \in {"moved", "error"} \/ pc = "error") =>
             UNCHANGED <<camera_uniform, camera_buffer, timeVars>>]_vars

C15_Witness ==
    /\ handler = "RedrawRequested" /\ pc = "idle" /\ err = "Timeout"
    /\ ~compute_pipeline
    /\ calls = <<"write_instance_buffer", "get_current_texture">>

====
